---- MODULE Spec2Model ----
(***************************************************************************)
(* Discrete-time real-time scheduling simulator (src/script.js,            *)
(* runSimulation): task normalisation, admission, priority-inheritance     *)
(* boost, rms / edf / hybrid / energy-hybrid selection, DVFS governor,     *)
(* execution and accounting, metrics.                                      *)
(*                                                                         *)
(* Work (execution, remaining, speed) is counted in units of 1/Scale, so   *)
(* that the completion threshold 0.0001 is the integer Eps; times          *)
(* (arrival, deadline, currentTime) are whole ticks.                       *)
(***************************************************************************)
EXTENDS Integers, Sequences, FiniteSets, TLC

VARIABLES input, scheduler, totalTime, laxityThreshold,
          tasks, currentTime, log, ready, running, cpuState,
          totalEnergy, cpuBusyTime, resources, timeline,
          next, candidates, pc, results

vars == <<input, scheduler, totalTime, laxityThreshold,
          tasks, currentTime, log, ready, running, cpuState,
          totalEnergy, cpuBusyTime, resources, timeline,
          next, candidates, pc, results>>

---------------------------------------------------------------------------
(* Bounds of the explored inputs *)

MaxArrival == 1

MaxTotalTime == 5

(* Program constants *)

Scale == 10000

Eps == 1

Infinity == 1000000000

PrioCritical == 1000000

NONE == 0

(* totalTime when the page's field holds no number *)
DefaultTotalTime == 200

NULL == 0 - 1

NoResource == "null"

NoOwner == "undefined"

CPU_STATES ==
  [HIGH |-> [name |-> "HIGH_PERFORMANCE", speed |-> Scale, power |-> 10],
   LOW  |-> [name |-> "POWER_SAVER", speed |-> Scale \div 2, power |-> 3]]

---------------------------------------------------------------------------
(* Inputs: task descriptors and run parameters *)

IDS == <<"T1", "T2">>

Arrivals == 0..MaxArrival

Executions == {1, 2}

Deadlines == {NULL, 3}

(* The periods of the sample tasks T1 and T2 *)
SamplePeriod(id) == IF id = "T1" THEN 50 ELSE 40

Periods(id) == {NULL, SamplePeriod(id)}

ResourceNames == {"R1"}

Schedulers == {"rms", "edf", "hybrid", "energy-hybrid", "fifo"}

LaxityThresholds == {0, 1}

(* A descriptor declares at most one use of the resource: none, holding it
   or needing it *)
Descriptor(id) ==
  {d \in [id : {id}, arrival : Arrivals, execution : Executions,
          deadline : Deadlines, period : Periods(id), is_critical : BOOLEAN,
          holds_resource : ResourceNames \cup {NoResource},
          needs_resource : ResourceNames \cup {NoResource},
          admitted : {FALSE}, boosted : {FALSE}] :
     d.holds_resource = NoResource \/ d.needs_resource = NoResource}

(* A descriptor that may be a task of an earlier result, uploaded again: it
   then carries the fields that run left, admitted and completed set,
   possibly boosted, nothing remaining, a history and a wait time *)
StaleDescriptor(id) ==
  {d \in [id : {id}, arrival : Arrivals, execution : Executions,
          deadline : Deadlines, period : {NULL}, is_critical : BOOLEAN,
          holds_resource : ResourceNames \cup {NoResource},
          needs_resource : ResourceNames \cup {NoResource},
          admitted : BOOLEAN, boosted : BOOLEAN, completed : BOOLEAN,
          remaining : {NULL, 0}, wait_time : {NULL, 1},
          history : {<<>>, <<[start |-> 0, end |-> 1, state |-> "run"]>>}] :
     /\ d.holds_resource = NoResource \/ d.needs_resource = NoResource
     /\ IF d.admitted
          THEN /\ d.completed /\ d.remaining = 0 /\ d.wait_time = 1
               /\ d.history # <<>>
          ELSE /\ ~d.completed /\ ~d.boosted /\ d.remaining = NULL
               /\ d.wait_time = NULL /\ d.history = <<>>}

IsStaleTaskSet(ds) ==
  \/ \E d1 \in StaleDescriptor(IDS[1]) : ds = <<d1>>
  \/ \E d1 \in StaleDescriptor(IDS[1]), d2 \in StaleDescriptor(IDS[2]) :
       ds = <<d1, d2>>

(* The task lists of a run: none, T1 alone, or T1 and T2 *)
IsTaskSet(ds) ==
  \/ ds = <<>>
  \/ \E d1 \in Descriptor(IDS[1]) : ds = <<d1>>
  \/ \E d1 \in Descriptor(IDS[1]), d2 \in Descriptor(IDS[2]) : ds = <<d1, d2>>

---------------------------------------------------------------------------
(* Helpers *)

Indices(ts) == 1..Len(ts)

IndexSeq(ts) == [i \in 1..Len(ts) |-> i]

(* a.id.localeCompare(b.id) for the ids of IDS: their order in IDS *)
Rank(id) == CHOOSE k \in 1..Len(IDS) : IDS[k] = id

(* a comparison of ids that never tells two ids apart *)
localeCompare_Equal(a, b) == 0

localeCompare(a, b) ==
  IF Rank(a) < Rank(b) THEN 0 - 1 ELSE IF Rank(a) > Rank(b) THEN 1 ELSE 0

(* tasks.find(x => x.id === ownerId): index of the first match, NONE if none *)
FindById(ts, id) ==
  IF \E i \in Indices(ts) : ts[i].id = id
    THEN CHOOSE i \in Indices(ts) :
           ts[i].id = id /\ \A j \in 1..(i - 1) : ts[j].id # id
    ELSE NONE

---------------------------------------------------------------------------
(* Task Normalizer: runSimulation, tasks.map *)

Truthy(x) == x # NULL /\ x # 0

(* Normalize with an absent period coerced like the other numeric fields,
   Number(null) = 0, instead of Infinity *)
Normalize_NullPeriodZero(d) ==
  LET exec == IF Truthy(d.execution) THEN d.execution * Scale ELSE 0
      deadline_relative ==
        IF Truthy(d.deadline) THEN d.deadline ELSE exec \div Scale
  IN [id |-> d.id,
      arrival |-> IF Truthy(d.arrival) THEN d.arrival ELSE 0,
      exec |-> exec,
      remaining |-> exec,
      deadline_relative |-> deadline_relative,
      abs_deadline |-> (IF Truthy(d.arrival) THEN d.arrival ELSE 0)
                         + deadline_relative,
      period |-> IF d.period = NULL THEN 0 ELSE d.period,
      is_critical |-> d.is_critical,
      history |-> <<>>,
      started |-> FALSE,
      start_time |-> NULL,
      completed |-> FALSE,
      completion_time |-> NULL,
      wait_time |-> 0,
      holds_resource |-> d.holds_resource,
      needs_resource |-> d.needs_resource,
      admitted |-> d.admitted,
      boosted |-> d.boosted,
      effectiveCritical |-> FALSE]

Normalize(d) ==
  LET exec == IF Truthy(d.execution) THEN d.execution * Scale ELSE 0
      deadline_relative ==
        IF Truthy(d.deadline) THEN d.deadline ELSE exec \div Scale
  IN [id |-> d.id,
      arrival |-> IF Truthy(d.arrival) THEN d.arrival ELSE 0,
      exec |-> exec,
      remaining |-> exec,
      deadline_relative |-> deadline_relative,
      abs_deadline |-> (IF Truthy(d.arrival) THEN d.arrival ELSE 0)
                         + deadline_relative,
      period |-> IF d.period = NULL THEN Infinity ELSE d.period,
      is_critical |-> d.is_critical,
      history |-> <<>>,
      started |-> FALSE,
      start_time |-> NULL,
      completed |-> FALSE,
      completion_time |-> NULL,
      wait_time |-> 0,
      holds_resource |-> d.holds_resource,
      needs_resource |-> d.needs_resource,
      admitted |-> d.admitted,
      boosted |-> d.boosted,
      effectiveCritical |-> FALSE]

NormalizeAll(ds) == [i \in 1..Len(ds) |-> Normalize(ds[i])]

NoResults == [computed |-> FALSE]

(* the caller's descriptors, were the tasks of the run the caller's own
   objects: the admission of a task would be written into its descriptor *)
callerTasks_Shared(ds, S) ==
  [i \in 1..Len(ds) |-> [ds[i] EXCEPT !.admitted = S.tasks[i].admitted]]

(* The caller's descriptors while run state S works on them: the run button
   passes clone(currentTasks) and the normaliser copies each descriptor
   with Object.assign({}, t), so the run writes to none of them *)
callerTasks(ds, S) == ds

(* The state of a run right after normalisation and the declarations of
   its locals *)
InitialRun(ds, sch, tt, lax) ==
  [tasks |-> NormalizeAll(ds), scheduler |-> sch, totalTime |-> tt,
   laxityThreshold |-> lax, currentTime |-> 0, log |-> <<>>,
   ready |-> <<>>, running |-> NONE, cpuState |-> CPU_STATES.HIGH,
   totalEnergy |-> 0, cpuBusyTime |-> 0,
   resources |-> [r \in ResourceNames |-> NoOwner],
   timeline |-> <<>>, next |-> NONE, candidates |-> <<>>, pc |-> "loop"]

---------------------------------------------------------------------------
(* One iteration of the simulation loop, as a function of the run state S *)

admitArrivals(S) ==
  LET arriving == SelectSeq(IndexSeq(S.tasks),
                    LAMBDA i : ~S.tasks[i].admitted
                               /\ S.tasks[i].arrival <= S.currentTime)
  IN [S EXCEPT
        !.tasks = [i \in Indices(S.tasks) |->
                     IF ~S.tasks[i].admitted
                        /\ S.tasks[i].arrival <= S.currentTime
                       THEN [S.tasks[i] EXCEPT !.admitted = TRUE]
                       ELSE S.tasks[i]],
        !.ready = S.ready \o arriving,
        !.log = S.log \o [k \in 1..Len(arriving) |->
                  <<S.currentTime, "admitted", S.tasks[arriving[k]].id>>]]

clearBoosts(S) ==
  [S EXCEPT !.tasks = [i \in Indices(S.tasks) |->
     [S.tasks[i] EXCEPT !.boosted = FALSE, !.effectiveCritical = FALSE]]]

computeLaxity(S, task) ==
  task.abs_deadline * Scale - (S.currentTime * Scale + task.remaining)

(* the score without the weight of criticality *)
Prio_DeadlineOnly(t) == 0 - t.abs_deadline

Prio(t) == (IF t.is_critical THEN PrioCritical ELSE 0) - t.abs_deadline

OwnerOf(S, w) == FindById(S.tasks, S.resources[S.tasks[w].needs_resource])

(* every waiter whose needed resource has an owner boosts it, whatever the
   scores *)
Boosting_AnyWaiter(S) ==
  SelectSeq(S.ready,
    LAMBDA w :
      /\ S.tasks[w].needs_resource # NoResource
      /\ S.resources[S.tasks[w].needs_resource] # NoOwner
      /\ OwnerOf(S, w) # NONE)

(* The waiters of `ready`, in order, whose needed resource has an owner of
   lower priority: each boosts that owner and logs a line *)
Boosting(S) ==
  SelectSeq(S.ready,
    LAMBDA w :
      /\ S.tasks[w].needs_resource # NoResource
      /\ S.resources[S.tasks[w].needs_resource] # NoOwner
      /\ OwnerOf(S, w) # NONE
      /\ Prio(S.tasks[w]) > Prio(S.tasks[OwnerOf(S, w)]))

applyPriorityInheritance(S) ==
  LET R == [S EXCEPT !.tasks = [i \in Indices(S.tasks) |->
                                  [S.tasks[i] EXCEPT !.boosted = FALSE]]]
      ws == Boosting(R)
  IN [R EXCEPT
        !.tasks = [i \in Indices(R.tasks) |->
                     IF \E k \in 1..Len(ws) : OwnerOf(R, ws[k]) = i
                       THEN [R.tasks[i] EXCEPT !.boosted = TRUE]
                       ELSE R.tasks[i]],
        !.log = R.log \o [k \in 1..Len(ws) |->
                  <<R.currentTime, "priority inheritance",
                    R.tasks[OwnerOf(R, ws[k])].id, R.tasks[ws[k]].id>>]]

(* The value of  x || y || z  for numbers: the first that is not 0 *)
OrElse(x, y, z) == IF x # 0 THEN x ELSE IF y # 0 THEN y ELSE z

(* a.period - b.period, where Infinity - Infinity is NaN (falsy, like 0) *)
PeriodDiff(a, b) ==
  IF a.period = Infinity /\ b.period = Infinity THEN 0 ELSE a.period - b.period

RmsCmp(a, b) ==
  OrElse(PeriodDiff(a, b), a.arrival - b.arrival, localeCompare(a.id, b.id))

(* EdfCmp with the arrival compared before the deadline *)
EdfCmp_ArrivalFirst(a, b) ==
  OrElse(a.arrival - b.arrival, a.abs_deadline - b.abs_deadline,
         localeCompare(a.id, b.id))

EdfCmp(a, b) ==
  OrElse(a.abs_deadline - b.abs_deadline, a.arrival - b.arrival,
         localeCompare(a.id, b.id))

(* The comparator passed to sort: "rms" by period, "edf" by abs_deadline *)
Cmp(order, a, b) == IF order = "rms" THEN RmsCmp(a, b) ELSE EdfCmp(a, b)

(* c.sort(cmp)[0] for a stable sort: the first element of c that no other
   element precedes under cmp *)
SortFirst(ts, c, order) ==
  c[CHOOSE k \in 1..Len(c) :
      /\ \A j \in 1..(k - 1) : Cmp(order, ts[c[j]], ts[c[k]]) > 0
      /\ \A j \in (k + 1)..Len(c) : Cmp(order, ts[c[k]], ts[c[j]]) <= 0]

(* Candidates without the filter on remaining and completed *)
Candidates_Unfiltered(S) == S.ready

Candidates(S) ==
  SelectSeq(S.ready,
    LAMBDA i : S.tasks[i].remaining > 0 /\ ~S.tasks[i].completed)

(* chooseNextWithBoost with the boost left out of the critical subset, as
   in chooseNext *)
chooseNextWithBoost_NoBoost(S) ==
  LET c == Candidates(S)
      ts == [i \in Indices(S.tasks) |->
               IF \E k \in 1..Len(c) : c[k] = i
                 THEN [S.tasks[i] EXCEPT !.effectiveCritical =
                         S.tasks[i].boosted \/ S.tasks[i].is_critical]
                 ELSE S.tasks[i]]
      criticalReady == SelectSeq(c, LAMBDA i : ts[i].is_critical)
      chosen ==
        IF Len(c) = 0 THEN NONE
        ELSE IF S.scheduler = "rms" THEN SortFirst(ts, c, "rms")
        ELSE IF S.scheduler = "edf" THEN SortFirst(ts, c, "edf")
        ELSE IF S.scheduler \in {"hybrid", "energy-hybrid"}
          THEN IF Len(criticalReady) > 0
                 THEN SortFirst(ts, criticalReady, "rms")
                 ELSE SortFirst(ts, c, "edf")
        ELSE SortFirst(ts, c, "edf")
  IN [S EXCEPT !.tasks = IF Len(c) = 0 THEN S.tasks ELSE ts,
               !.candidates = c, !.next = chosen]

(* chooseNextWithBoost whose default branch orders like 'rms' *)
chooseNextWithBoost_DefaultRms(S) ==
  LET c == Candidates(S)
      ts == [i \in Indices(S.tasks) |->
               IF \E k \in 1..Len(c) : c[k] = i
                 THEN [S.tasks[i] EXCEPT !.effectiveCritical =
                         S.tasks[i].boosted \/ S.tasks[i].is_critical]
                 ELSE S.tasks[i]]
      criticalReady == SelectSeq(c, LAMBDA i : ts[i].effectiveCritical)
      chosen ==
        IF Len(c) = 0 THEN NONE
        ELSE IF S.scheduler = "rms" THEN SortFirst(ts, c, "rms")
        ELSE IF S.scheduler = "edf" THEN SortFirst(ts, c, "edf")
        ELSE IF S.scheduler \in {"hybrid", "energy-hybrid"}
          THEN IF Len(criticalReady) > 0
                 THEN SortFirst(ts, criticalReady, "rms")
                 ELSE SortFirst(ts, c, "edf")
        ELSE SortFirst(ts, c, "rms")
  IN [S EXCEPT !.tasks = IF Len(c) = 0 THEN S.tasks ELSE ts,
               !.candidates = c, !.next = chosen]

chooseNextWithBoost(S) ==
  LET c == Candidates(S)
      ts == [i \in Indices(S.tasks) |->
               IF \E k \in 1..Len(c) : c[k] = i
                 THEN [S.tasks[i] EXCEPT !.effectiveCritical =
                         S.tasks[i].boosted \/ S.tasks[i].is_critical]
                 ELSE S.tasks[i]]
      criticalReady == SelectSeq(c, LAMBDA i : ts[i].effectiveCritical)
      chosen ==
        IF Len(c) = 0 THEN NONE
        ELSE IF S.scheduler = "rms" THEN SortFirst(ts, c, "rms")
        ELSE IF S.scheduler = "edf" THEN SortFirst(ts, c, "edf")
        ELSE IF S.scheduler \in {"hybrid", "energy-hybrid"}
          THEN IF Len(criticalReady) > 0
                 THEN SortFirst(ts, criticalReady, "rms")
                 ELSE SortFirst(ts, c, "edf")
        ELSE SortFirst(ts, c, "edf")
  IN [S EXCEPT !.tasks = IF Len(c) = 0 THEN S.tasks ELSE ts,
               !.candidates = c, !.next = chosen]

(* decideCpuState with a laxity equal to the threshold counted as slack *)
decideCpuState_AtLeast(S) ==
  [S EXCEPT !.cpuState =
     IF S.scheduler = "energy-hybrid"
       THEN IF S.next = NONE THEN CPU_STATES.LOW
            ELSE IF computeLaxity(S, S.tasks[S.next])
                      >= S.laxityThreshold * Scale
                   THEN CPU_STATES.LOW ELSE CPU_STATES.HIGH
       ELSE CPU_STATES.HIGH]

decideCpuState(S) ==
  [S EXCEPT !.cpuState =
     IF S.scheduler = "energy-hybrid"
       THEN IF S.next = NONE THEN CPU_STATES.LOW
            ELSE IF computeLaxity(S, S.tasks[S.next])
                      > S.laxityThreshold * Scale
                   THEN CPU_STATES.LOW ELSE CPU_STATES.HIGH
       ELSE CPU_STATES.HIGH]

(* accountEnergy charging the HIGH power whatever the chosen state *)
accountEnergy_HighPower(S) ==
  [S EXCEPT !.totalEnergy = S.totalEnergy + CPU_STATES.HIGH.power]

accountEnergy(S) == [S EXCEPT !.totalEnergy = S.totalEnergy + S.cpuState.power]

(* blockOrAcquire with the block ignored: the selected task runs although
   another task owns the resource it needs *)
blockOrAcquire_RunsBlocked(S) ==
  LET t == S.tasks[S.next]
  IN IF t.needs_resource = NoResource THEN [S EXCEPT !.running = S.next]
     ELSE [S EXCEPT
             !.running = S.next,
             !.resources[t.needs_resource] = t.id,
             !.log = Append(@, <<S.currentTime, "acquired", t.id,
                                 t.needs_resource>>)]

(* if (next) { ... } else { idle }: block or acquire, confirm ownership,
   execute, complete and release *)
Blocked(S) ==
  /\ S.next # NONE
  /\ S.tasks[S.next].needs_resource # NoResource
  /\ S.resources[S.tasks[S.next].needs_resource] # NoOwner
  /\ S.resources[S.tasks[S.next].needs_resource] # S.tasks[S.next].id

blockOrAcquire(S) ==
  LET t == S.tasks[S.next]
  IN IF t.needs_resource = NoResource THEN [S EXCEPT !.running = S.next]
     ELSE IF Blocked(S)
       THEN [S EXCEPT
               !.tasks[S.next].wait_time = @ + 1,
               !.log = Append(@, <<S.currentTime, "blocked", t.id,
                                   t.needs_resource>>),
               !.running = NONE]
       ELSE [S EXCEPT
               !.running = S.next,
               !.resources[t.needs_resource] = t.id,
               !.log = Append(@, <<S.currentTime, "acquired", t.id,
                                   t.needs_resource>>)]

recordHeld(S) ==
  IF S.running # NONE /\ S.tasks[S.running].holds_resource # NoResource
    THEN [S EXCEPT !.resources[S.tasks[S.running].holds_resource] =
                      S.tasks[S.running].id]
    ELSE S

(* a segment of its own for every tick of execution *)
recordSegment_PerTick(history, time) ==
  Append(history, [start |-> time, end |-> time + 1, state |-> "run"])

(* running.history after the segment of this tick is recorded *)
recordSegment(history, time) ==
  IF Len(history) = 0 \/ history[Len(history)].state # "run"
    THEN Append(history, [start |-> time, end |-> time + 1, state |-> "run"])
    ELSE [history EXCEPT ![Len(history)].end = time + 1]

(* execute with the work of a tick fixed at full speed, whatever the CPU
   state *)
execute_FullSpeed(S) ==
  LET r == S.running
      t == S.tasks[r]
      work == CPU_STATES.HIGH.speed
      rem == t.remaining - work
  IN [S EXCEPT
        !.tasks[r] = [t EXCEPT
           !.started = TRUE,
           !.start_time = IF t.started THEN t.start_time ELSE S.currentTime,
           !.history = recordSegment(t.history, S.currentTime),
           !.remaining = rem],
        !.cpuBusyTime = S.cpuBusyTime + 1,
        !.log = Append(@, <<S.currentTime, "running", t.id, work,
                            IF rem > 0 THEN rem ELSE 0>>)]

execute(S) ==
  LET r == S.running
      t == S.tasks[r]
      work == S.cpuState.speed
      rem == t.remaining - work
  IN [S EXCEPT
        !.tasks[r] = [t EXCEPT
           !.started = TRUE,
           !.start_time = IF t.started THEN t.start_time ELSE S.currentTime,
           !.history = recordSegment(t.history, S.currentTime),
           !.remaining = rem],
        !.cpuBusyTime = S.cpuBusyTime + 1,
        !.log = Append(@, <<S.currentTime, "running", t.id, work,
                            IF rem > 0 THEN rem ELSE 0>>)]

(* release that deletes the entry of holds_resource only *)
release_HeldOnly(res, t) ==
  IF t.holds_resource # NoResource /\ res[t.holds_resource] = t.id
    THEN [res EXCEPT ![t.holds_resource] = NoOwner]
    ELSE res

(* The table after completed task t has released: the entries of its
   holds_resource and of its needs_resource, each if t owns it *)
release(res, t) ==
  LET afterHeld == IF t.holds_resource # NoResource
                      /\ res[t.holds_resource] = t.id
                     THEN [res EXCEPT ![t.holds_resource] = NoOwner]
                     ELSE res
  IN IF t.needs_resource # NoResource /\ afterHeld[t.needs_resource] = t.id
       THEN [afterHeld EXCEPT ![t.needs_resource] = NoOwner]
       ELSE afterHeld

(* the completion test without its tolerance, and strict *)
IsFinished_Negative(t) == t.remaining < 0

(* running.remaining <= 0.0001 *)
IsFinished(t) == t.remaining <= Eps

(* complete with the completion stamped with the tick itself instead of
   one past it *)
complete_StampsTick(S) ==
  LET r == S.running
      t == S.tasks[r]
      releaseHeld == t.holds_resource # NoResource
                     /\ S.resources[t.holds_resource] = t.id
  IN IF IsFinished(t)
       THEN [S EXCEPT
               !.tasks[r].completed = TRUE,
               !.tasks[r].completion_time = S.currentTime,
               !.resources = release(S.resources, t),
               !.log = @ \o <<<<S.currentTime + 1, "completed", t.id,
                                t.abs_deadline>>>>
                         \o (IF releaseHeld
                               THEN <<<<S.currentTime + 1, "released", t.id,
                                        t.holds_resource>>>>
                               ELSE <<>>)]
       ELSE S

complete(S) ==
  LET r == S.running
      t == S.tasks[r]
      releaseHeld == t.holds_resource # NoResource
                     /\ S.resources[t.holds_resource] = t.id
  IN IF IsFinished(t)
       THEN [S EXCEPT
               !.tasks[r].completed = TRUE,
               !.tasks[r].completion_time = S.currentTime + 1,
               !.resources = release(S.resources, t),
               !.log = @ \o <<<<S.currentTime + 1, "completed", t.id,
                                t.abs_deadline>>>>
                         \o (IF releaseHeld
                               THEN <<<<S.currentTime + 1, "released", t.id,
                                        t.holds_resource>>>>
                               ELSE <<>>)]
       ELSE S

dispatch(S) ==
  IF S.next # NONE
    THEN LET A == recordHeld(blockOrAcquire(S))
         IN IF A.running # NONE THEN complete(execute(A)) ELSE A
    ELSE [S EXCEPT !.log = Append(@, <<S.currentTime, "idle">>)]

updateWaitTimes(S) ==
  [S EXCEPT !.tasks = [i \in Indices(S.tasks) |->
     IF (\E k \in 1..Len(S.ready) : S.ready[k] = i)
        /\ ~S.tasks[i].completed /\ i # S.running
       THEN [S.tasks[i] EXCEPT !.wait_time = @ + 1]
       ELSE S.tasks[i]]]

(* the break test without its look at the tasks still pending *)
AllDone_ReadyOnly(S) ==
  \A i \in Indices(S.tasks) : ~(~S.tasks[i].completed /\ S.tasks[i].admitted)

AllDone(S) ==
  /\ \A i \in Indices(S.tasks) : ~(~S.tasks[i].completed /\ S.tasks[i].admitted)
  /\ \A i \in Indices(S.tasks) : S.tasks[i].admitted

endOfTick(S) ==
  IF AllDone(S)
    THEN [S EXCEPT !.pc = "break"]
    ELSE [S EXCEPT
            !.timeline = Append(@,
               [time |-> S.currentTime,
                running |-> IF S.running # NONE THEN S.tasks[S.running].id
                            ELSE "null",
                cpuState |-> S.cpuState.name]),
            !.currentTime = S.currentTime + 1]

LoopBody(S) ==
  endOfTick(updateWaitTimes(dispatch(accountEnergy(decideCpuState(
    chooseNextWithBoost(applyPriorityInheritance(clearBoosts(
      admitArrivals(S)))))))))

Looping(S) == S.pc = "loop" /\ S.currentTime <= S.totalTime

(* The run state when the loop is left: the loop iterated from S *)
RECURSIVE RunToEnd(_)
RunToEnd(S) == IF Looping(S) THEN RunToEnd(LoopBody(S)) ELSE S

---------------------------------------------------------------------------
(* Metrics Aggregator: ratios are kept as numerator and denominator *)

Max(a, b) == IF a >= b THEN a ELSE b

RECURSIVE SeqMax(_, _)
SeqMax(xs, m) == IF Len(xs) = 0 THEN m ELSE SeqMax(Tail(xs), Max(Head(xs), m))

RECURSIVE SeqSum(_)
SeqSum(xs) == IF Len(xs) = 0 THEN 0 ELSE Head(xs) + SeqSum(Tail(xs))

(* the tasks counted by the ratio, had it been taken from deadlineMisses *)
missedOrNotCompleted_LateOnly(ts) ==
  SelectSeq(IndexSeq(ts),
    LAMBDA i : ts[i].completed
               /\ ts[i].completion_time > ts[i].abs_deadline)

missedOrNotCompleted(ts) ==
  SelectSeq(IndexSeq(ts),
    LAMBDA i : ~ts[i].completed
               \/ ts[i].completion_time > ts[i].abs_deadline)

computeMetrics(S) ==
  LET ts == S.tasks
      completionOr0 == [i \in Indices(ts) |->
                          IF Truthy(ts[i].completion_time)
                            THEN ts[i].completion_time ELSE 0]
      totalSimTime == SeqMax(completionOr0, S.totalTime)
      missed == missedOrNotCompleted(ts)
      turnaround == [i \in Indices(ts) |->
                       IF Truthy(ts[i].completion_time)
                         THEN ts[i].completion_time - ts[i].arrival
                         ELSE S.totalTime - ts[i].arrival]
  IN [computed |-> TRUE,
      totalEnergy |-> S.totalEnergy,
      deadlineMissRatio |-> [num |-> Len(missed), den |-> Len(ts)],
      deadlineMisses |-> [k \in 1..Len(missed) |-> ts[missed[k]].id],
      avgTurnaround |-> [num |-> SeqSum(turnaround), den |-> Len(ts)],
      cpuUtilization |-> [num |-> S.cpuBusyTime,
                          den |-> Max(totalSimTime, 1)],
      totalSimTime |-> totalSimTime,
      cpuBusyTime |-> S.cpuBusyTime]

---------------------------------------------------------------------------
(* The state machine *)

State ==
  [tasks |-> tasks, scheduler |-> scheduler, totalTime |-> totalTime,
   laxityThreshold |-> laxityThreshold, currentTime |-> currentTime,
   log |-> log, ready |-> ready, running |-> running, cpuState |-> cpuState,
   totalEnergy |-> totalEnergy, cpuBusyTime |-> cpuBusyTime,
   resources |-> resources, timeline |-> timeline, next |-> next,
   candidates |-> candidates, pc |-> pc]

Becomes(S) ==
  /\ tasks' = S.tasks
  /\ currentTime' = S.currentTime
  /\ log' = S.log
  /\ ready' = S.ready
  /\ running' = S.running
  /\ cpuState' = S.cpuState
  /\ totalEnergy' = S.totalEnergy
  /\ cpuBusyTime' = S.cpuBusyTime
  /\ resources' = S.resources
  /\ timeline' = S.timeline
  /\ next' = S.next
  /\ candidates' = S.candidates
  /\ pc' = S.pc

Init ==
  /\ IsTaskSet(input)
  /\ scheduler \in Schedulers
  /\ totalTime = MaxTotalTime
  /\ laxityThreshold \in LaxityThresholds
  /\ (scheduler # "energy-hybrid" => laxityThreshold = 1)
  /\ tasks = NormalizeAll(input)
  /\ currentTime = 0
  /\ log = <<>>
  /\ ready = <<>>
  /\ running = NONE
  /\ cpuState = CPU_STATES.HIGH
  /\ totalEnergy = 0
  /\ cpuBusyTime = 0
  /\ resources = [r \in ResourceNames |-> NoOwner]
  /\ timeline = <<>>
  /\ next = NONE
  /\ candidates = <<>>
  /\ pc = "loop"
  /\ results = NoResults

(* One iteration of  for (currentTime = 0; currentTime <= totalTime; ...) *)
Tick ==
  /\ Looping(State)
  /\ \E S \in {LoopBody(State)} :
       Becomes(S) /\ input' = callerTasks(input, S)
  /\ UNCHANGED <<scheduler, totalTime, laxityThreshold, results>>

(* The code after the loop: the result bundle *)
Finish ==
  /\ ~Looping(State)
  /\ ~results.computed
  /\ results' = computeMetrics(State)
  /\ UNCHANGED <<input, scheduler, totalTime, laxityThreshold, tasks,
                 currentTime, log, ready, running, cpuState, totalEnergy,
                 cpuBusyTime, resources, timeline, next, candidates, pc>>

Next == Tick \/ Finish

Spec == Init /\ [][Next]_vars

(* Runs under 'hybrid' of task sets that may hold tasks of an earlier
   result *)
InitStale ==
  /\ IsStaleTaskSet(input)
  /\ scheduler = "hybrid"
  /\ totalTime = MaxTotalTime
  /\ laxityThreshold = 1
  /\ tasks = NormalizeAll(input)
  /\ currentTime = 0
  /\ log = <<>>
  /\ ready = <<>>
  /\ running = NONE
  /\ cpuState = CPU_STATES.HIGH
  /\ totalEnergy = 0
  /\ cpuBusyTime = 0
  /\ resources = [r \in ResourceNames |-> NoOwner]
  /\ timeline = <<>>
  /\ next = NONE
  /\ candidates = <<>>
  /\ pc = "loop"
  /\ results = NoResults

SpecStale == InitStale /\ [][Next]_vars

(* Runs of one task that uses no resource, with the execution time 20 and
   the deadline 25 of the spec's single-task scenario among the inputs; the
   horizon is the shortest that lets the task complete, or the page's
   default *)
SingleDescriptor ==
  [id : {IDS[1]}, arrival : Arrivals, execution : Executions \cup {20},
   deadline : Deadlines \cup {25}, period : Periods(IDS[1]),
   is_critical : BOOLEAN, holds_resource : {NoResource},
   needs_resource : {NoResource}, admitted : {FALSE}, boosted : {FALSE}]

InitSingle ==
  /\ \E d \in SingleDescriptor :
       /\ input = <<d>>
       /\ totalTime \in {d.arrival + d.execution - 1, DefaultTotalTime}
  /\ scheduler \in Schedulers
  /\ laxityThreshold \in LaxityThresholds
  /\ (scheduler # "energy-hybrid" => laxityThreshold = 1)
  /\ tasks = NormalizeAll(input)
  /\ currentTime = 0
  /\ log = <<>>
  /\ ready = <<>>
  /\ running = NONE
  /\ cpuState = CPU_STATES.HIGH
  /\ totalEnergy = 0
  /\ cpuBusyTime = 0
  /\ resources = [r \in ResourceNames |-> NoOwner]
  /\ timeline = <<>>
  /\ next = NONE
  /\ candidates = <<>>
  /\ pc = "loop"
  /\ results = NoResults

SpecSingle == InitSingle /\ [][Next]_vars

(* Runs in which the second task may arrive after a gap: T1 arrives at 0, T2
   at 0, 1 or 3, so that ticks without any candidate follow a tick of
   execution *)
GapDescriptor(id) ==
  {d \in [id : {id}, arrival : Arrivals \cup {3}, execution : Executions,
          deadline : Deadlines, period : {NULL}, is_critical : BOOLEAN,
          holds_resource : ResourceNames \cup {NoResource},
          needs_resource : ResourceNames \cup {NoResource},
          admitted : {FALSE}, boosted : {FALSE}] :
     /\ d.holds_resource = NoResource \/ d.needs_resource = NoResource
     /\ id = IDS[1] => d.arrival = 0}

InitGap ==
  /\ \E d1 \in GapDescriptor(IDS[1]), d2 \in GapDescriptor(IDS[2]) :
       input = <<d1, d2>>
  /\ scheduler \in Schedulers
  /\ totalTime = MaxTotalTime
  /\ laxityThreshold \in LaxityThresholds
  /\ (scheduler # "energy-hybrid" => laxityThreshold = 1)
  /\ tasks = NormalizeAll(input)
  /\ currentTime = 0
  /\ log = <<>>
  /\ ready = <<>>
  /\ running = NONE
  /\ cpuState = CPU_STATES.HIGH
  /\ totalEnergy = 0
  /\ cpuBusyTime = 0
  /\ resources = [r \in ResourceNames |-> NoOwner]
  /\ timeline = <<>>
  /\ next = NONE
  /\ candidates = <<>>
  /\ pc = "loop"
  /\ results = NoResults

SpecGap == InitGap /\ [][Next]_vars

(* The horizon that leaves every task the time to execute at the LOW speed:
   the latest arrival, twice the sum of the executions, and one tick per
   task *)
Horizon(ds) ==
  SeqMax([i \in 1..Len(ds) |-> ds[i].arrival], 0)
    + 2 * SeqSum([i \in 1..Len(ds) |-> ds[i].execution]) + Len(ds)

(* Runs of the task sets of Spec on that horizon *)
InitLong ==
  /\ IsTaskSet(input)
  /\ scheduler \in Schedulers
  /\ totalTime = Horizon(input)
  /\ laxityThreshold \in LaxityThresholds
  /\ (scheduler # "energy-hybrid" => laxityThreshold = 1)
  /\ tasks = NormalizeAll(input)
  /\ currentTime = 0
  /\ log = <<>>
  /\ ready = <<>>
  /\ running = NONE
  /\ cpuState = CPU_STATES.HIGH
  /\ totalEnergy = 0
  /\ cpuBusyTime = 0
  /\ resources = [r \in ResourceNames |-> NoOwner]
  /\ timeline = <<>>
  /\ next = NONE
  /\ candidates = <<>>
  /\ pc = "loop"
  /\ results = NoResults

SpecLong == InitLong /\ [][Next]_vars

(* Runs with two resources, in which a task may hold R1 and need R1 or R2 *)
TwoResources == {"R1", "R2"}

TwoDescriptor(id) ==
  [id : {id}, arrival : Arrivals, execution : Executions,
   deadline : Deadlines, period : {NULL}, is_critical : BOOLEAN,
   holds_resource : {NoResource, "R1"},
   needs_resource : {NoResource, "R1", "R2"},
   admitted : {FALSE}, boosted : {FALSE}]

InitTwo ==
  /\ \E d1 \in TwoDescriptor(IDS[1]), d2 \in TwoDescriptor(IDS[2]) :
       input = <<d1, d2>>
  /\ scheduler \in Schedulers
  /\ totalTime = MaxTotalTime
  /\ laxityThreshold \in LaxityThresholds
  /\ (scheduler # "energy-hybrid" => laxityThreshold = 1)
  /\ tasks = NormalizeAll(input)
  /\ currentTime = 0
  /\ log = <<>>
  /\ ready = <<>>
  /\ running = NONE
  /\ cpuState = CPU_STATES.HIGH
  /\ totalEnergy = 0
  /\ cpuBusyTime = 0
  /\ resources = [r \in TwoResources |-> NoOwner]
  /\ timeline = <<>>
  /\ next = NONE
  /\ candidates = <<>>
  /\ pc = "loop"
  /\ results = NoResults

SpecTwo == InitTwo /\ [][Next]_vars

---------------------------------------------------------------------------
(* Observations of the tick that was just iterated *)

(* Some tick has been iterated: every tick logs at least one line *)
Ticked == Len(log) > 0

(* The tick last iterated: the loop leaves currentTime alone on break *)
LastTick == IF pc = "break" THEN currentTime ELSE currentTime - 1

(* The ticks covered by the history of task i *)
Covered(ts, i) ==
  {t \in 0..(MaxTotalTime + 2) :
     \E k \in 1..Len(ts[i].history) :
       ts[i].history[k].start <= t /\ t < ts[i].history[k].end}

(* The tasks that are candidates of the tick about to be iterated: admitted
   by then, not completed, with work left *)
CandSet ==
  {i \in Indices(tasks) :
     /\ tasks[i].arrival <= currentTime
     /\ ~tasks[i].completed
     /\ tasks[i].remaining > 0}

---------------------------------------------------------------------------
(* C1: after runSimulation, for every tick t at most one task has a history
   segment {start, end} with start <= t < end (single-processor
   exclusivity of the trace). *)
C1_Exclusive ==
  results.computed =>
    \A i, j \in Indices(tasks) :
      i # j => Covered(tasks, i) \cap Covered(tasks, j) = {}

(* The selected task of the step's tick is blocked: it needs a resource
   that another task owns when the tick begins *)
SelectedIsBlocked ==
  /\ Looping(State)
  /\ next' # NONE
  /\ tasks[next'].needs_resource # NoResource
  /\ resources[tasks[next'].needs_resource] # NoOwner
  /\ resources[tasks[next'].needs_resource] # tasks[next'].id

(* C2: at a tick where the selected task needs a resource owned by a
   different task, no task executes: every task's remaining is unchanged,
   cpuBusyTime is unchanged and no history segment is created or
   extended. *)
C2_NoReselectionOnBlock ==
  [][SelectedIsBlocked =>
       /\ \A i \in Indices(tasks) :
            /\ tasks'[i].remaining = tasks[i].remaining
            /\ tasks'[i].history = tasks[i].history
       /\ cpuBusyTime' = cpuBusyTime]_vars

(* A blocked tick with a second Ready candidate that could have run *)
C2_Witness ==
  /\ Ticked
  /\ next # NONE
  /\ running = NONE
  /\ Len(candidates) = 2
  /\ \E k \in 1..2 :
       /\ candidates[k] # next
       /\ tasks[candidates[k]].needs_resource = NoResource

(* C3: under 'edf', at every tick with a non-empty candidate set, the
   selected task has the minimal abs_deadline of all candidates, whatever
   boosts are present. *)
C3_EdfMinimalDeadline ==
  [][(Looping(State) /\ scheduler = "edf" /\ CandSet # {}) =>
       /\ next' \in CandSet
       /\ \A c \in CandSet :
            tasks[next'].abs_deadline <= tasks[c].abs_deadline]_vars

(* An edf tick with two candidates of different deadlines, one boosted *)
C3_Witness ==
  /\ scheduler = "edf"
  /\ Ticked
  /\ Len(candidates) = 2
  /\ tasks[1].abs_deadline # tasks[2].abs_deadline
  /\ \E i \in Indices(tasks) : tasks[i].boosted /\ i # next

(* The period of descriptor i is at most that of descriptor j, an absent
   period counting as infinite *)
PeriodAtMost(i, j) ==
  \/ input[j].period = NULL
  \/ input[i].period # NULL /\ input[i].period <= input[j].period

(* Scenario A: T1 with period 50 and T2 with period 40, both arriving at 0 *)
ScenarioA ==
  /\ Len(input) = 2
  /\ input[1].period = 50 /\ input[2].period = 40
  /\ input[1].arrival = 0 /\ input[2].arrival = 0

(* C4: under 'rms', at every tick with a non-empty candidate set, the
   selected task has the minimal period of all candidates, an absent period
   losing to every finite one; for T1 (period 50) and T2 (period 40) both
   arriving at 0, T2 is selected at tick 0. *)
C4_RmsMinimalPeriod ==
  [][(Looping(State) /\ scheduler = "rms" /\ CandSet # {}) =>
       /\ next' \in CandSet
       /\ \A c \in CandSet : PeriodAtMost(next', c)
       /\ (ScenarioA /\ currentTime = 0 => next' = 2)]_vars

(* Scenario A after tick 0 under rms, with T2 selected *)
C4_Witness ==
  /\ scheduler = "rms"
  /\ ScenarioA
  /\ Ticked /\ LastTick = 0
  /\ next = 2

(* Task i precedes or equals task j in the rms order and in the edf order:
   by period, resp. abs_deadline, then arrival, then id *)
RmsBefore(i, j) ==
  \/ ~PeriodAtMost(j, i)
  \/ /\ PeriodAtMost(j, i) /\ PeriodAtMost(i, j)
     /\ \/ tasks[i].arrival < tasks[j].arrival
        \/ tasks[i].arrival = tasks[j].arrival /\ i <= j

EdfBefore(i, j) ==
  \/ tasks[i].abs_deadline < tasks[j].abs_deadline
  \/ /\ tasks[i].abs_deadline = tasks[j].abs_deadline
     /\ \/ tasks[i].arrival < tasks[j].arrival
        \/ tasks[i].arrival = tasks[j].arrival /\ i <= j

(* The candidates that are critical or boosted during the step's tick *)
EffectivelyCritical ==
  {c \in CandSet : tasks[c].is_critical \/ tasks'[c].boosted}

(* C5: under 'hybrid' and 'energy-hybrid', at every tick: if some candidate
   is effectively critical (is_critical or boosted this tick) the selected
   task is the rms-minimal one of the effectively critical candidates;
   otherwise it is the edf-minimal one of all candidates. *)
C5_HybridSelection ==
  [][(Looping(State) /\ scheduler \in {"hybrid", "energy-hybrid"}
        /\ CandSet # {}) =>
       IF EffectivelyCritical # {}
         THEN /\ next' \in EffectivelyCritical
              /\ \A c \in EffectivelyCritical : RmsBefore(next', c)
         ELSE /\ next' \in CandSet
              /\ \A c \in CandSet : EdfBefore(next', c)]_vars

(* A hybrid tick that selects a boosted, non-critical owner ahead of a
   critical candidate *)
C5_Witness ==
  /\ scheduler \in {"hybrid", "energy-hybrid"}
  /\ Ticked
  /\ next # NONE
  /\ tasks[next].boosted /\ ~tasks[next].is_critical
  /\ \E k \in 1..Len(candidates) :
       candidates[k] # next /\ tasks[candidates[k]].is_critical

(* C6: for every task, remaining never increases from one tick to the
   next; it decreases only in a tick in which that task was selected and
   not blocked, by exactly the tick's CPU speed; and completed becomes true
   only at a tick where remaining <= 0.0001. *)
C6_RemainingMonotone ==
  [][\A i \in Indices(tasks) :
       /\ tasks'[i].remaining <= tasks[i].remaining
       /\ tasks'[i].remaining < tasks[i].remaining =>
            /\ Looping(State)
            /\ next' = i
            /\ ~SelectedIsBlocked
            /\ tasks[i].remaining - tasks'[i].remaining = cpuState'.speed
       /\ (tasks'[i].completed /\ ~tasks[i].completed) =>
            tasks'[i].remaining <= Eps
       /\ tasks'[i].completed => tasks'[i].remaining <= Eps]_vars

(* A task has just completed on a tick run at half speed while the other
   task still has work left *)
C6_Witness ==
  /\ Ticked
  /\ next # NONE /\ running = next
  /\ cpuState = CPU_STATES.LOW
  /\ tasks[next].completed
  /\ \E j \in Indices(tasks) : j # next /\ tasks[j].remaining > 0

(* C7: a task executes only at ticks t with arrival <= t and before it is
   completed: it is admitted at the first iterated tick with
   arrival <= currentTime and exactly once, it is never selected before
   admission, and once completed it is never selected, never executes again
   and its completion_time never changes. *)
C7_AdmissionAndCompletion ==
  [][/\ Looping(State) =>
          /\ \A i \in Indices(tasks) :
               /\ tasks'[i].admitted <=>
                    (tasks[i].admitted \/ tasks[i].arrival <= currentTime)
               /\ Cardinality({k \in 1..Len(ready') : ready'[k] = i})
                    = IF tasks'[i].admitted THEN 1 ELSE 0
               /\ Cardinality({k \in 1..Len(log') :
                                 log'[k][2] = "admitted"
                                 /\ log'[k][3] = tasks[i].id})
                    = IF tasks'[i].admitted THEN 1 ELSE 0
               /\ tasks'[i].history # tasks[i].history =>
                    /\ tasks[i].arrival <= currentTime
                    /\ ~tasks[i].completed
                    /\ next' = i
               /\ tasks[i].completed =>
                    /\ next' # i
                    /\ tasks'[i].remaining = tasks[i].remaining
          /\ next' # NONE =>
               /\ tasks'[next'].admitted
               /\ tasks[next'].arrival <= currentTime
     /\ \A i \in Indices(tasks) :
          tasks[i].completed =>
            /\ tasks'[i].completed
            /\ tasks'[i].completion_time = tasks[i].completion_time
            /\ tasks'[i].history = tasks[i].history]_vars

(* A task that arrived after tick 0 is selected at a tick after the other
   task completed *)
C7_Witness ==
  /\ Ticked
  /\ \E i, j \in Indices(tasks) :
       /\ i # j
       /\ tasks[i].completed /\ tasks[i].completion_time <= LastTick
       /\ next = j /\ running = j
       /\ tasks[j].arrival > 0

(* C8: for every completed task, completion_time equals the end of the
   last segment of its history (one past the last tick in which it
   executed), and equals currentTime + 1 of the tick at which remaining
   first became <= 0.0001. *)
C8_CompletionTime ==
  [][\A i \in Indices(tasks) :
       /\ tasks'[i].completed =>
            /\ Len(tasks'[i].history) > 0
            /\ tasks'[i].completion_time =
                 tasks'[i].history[Len(tasks'[i].history)].end
       /\ (tasks[i].remaining > Eps /\ tasks'[i].remaining <= Eps) =>
            /\ ~tasks[i].completed /\ tasks'[i].completed
            /\ tasks'[i].completion_time = currentTime + 1
       /\ (tasks'[i].completed /\ ~tasks[i].completed) =>
            tasks[i].remaining > Eps /\ tasks'[i].remaining <= Eps]_vars

(* A completed task that ran in more than one tick and was preempted in
   between *)
C8_Witness ==
  \E i \in Indices(tasks) :
    /\ tasks[i].completed
    /\ tasks[i].completion_time = tasks[i].history[Len(tasks[i].history)].end
    /\ tasks[i].completion_time - tasks[i].start_time
         > tasks[i].exec \div Scale
    /\ tasks[i].wait_time > 0

(* The laxity of task i at the tick about to be iterated, in units of
   1/Scale *)
LaxityNow(i) ==
  tasks[i].abs_deadline * Scale - (currentTime * Scale + tasks[i].remaining)

(* C9: CPU state per tick: under 'energy-hybrid' LOW when no task was
   selected, LOW when the selected task's laxity
   abs_deadline - (currentTime + remaining) is strictly greater than
   laxityThreshold, HIGH otherwise (also at laxity equal to the threshold);
   under every other scheduler HIGH at every tick, idle or not. *)
C9_CpuStateRule ==
  [][Looping(State) =>
       cpuState' =
         IF scheduler = "energy-hybrid"
           THEN IF next' = NONE THEN CPU_STATES.LOW
                ELSE IF LaxityNow(next') > laxityThreshold * Scale
                       THEN CPU_STATES.LOW
                       ELSE CPU_STATES.HIGH
           ELSE CPU_STATES.HIGH]_vars

(* An energy-hybrid tick run HIGH with the laxity of the selected task
   equal to the threshold *)
C9_Witness ==
  /\ scheduler = "energy-hybrid"
  /\ Ticked
  /\ next # NONE /\ running = next
  /\ cpuState = CPU_STATES.HIGH
  /\ tasks[next].abs_deadline * Scale
       - (LastTick * Scale + tasks[next].remaining + cpuState.speed)
     = laxityThreshold * Scale

(* The number of ticks the loop of run S has iterated *)
IteratedTicks(S) == IF S.pc = "break" THEN S.currentTime + 1 ELSE S.currentTime

(* A task executed in every iterated tick of S, and S completed all tasks *)
AlwaysBusy(S) == S.cpuBusyTime = IteratedTicks(S)

AllCompleted(S) == \A i \in Indices(S.tasks) : S.tasks[i].completed

(* The same task set, horizon and threshold run to its end under 'hybrid':
   the same selection rule with HIGH forced at every tick *)
HybridRun ==
  RunToEnd(InitialRun(input, "hybrid", totalTime, laxityThreshold))

(* A finished 'energy-hybrid' run of a task set that keeps the processor
   busy and is completed within the horizon, under both policies *)
EnergyComparable ==
  /\ results.computed
  /\ scheduler = "energy-hybrid"
  /\ Len(tasks) > 0
  /\ AlwaysBusy(State) /\ AllCompleted(State)
  /\ AlwaysBusy(HybridRun) /\ AllCompleted(HybridRun)

(* C10 as claimed: on an always-busy task set completed within the horizon,
   totalEnergy under 'energy-hybrid' is <= totalEnergy of the same task set
   under 'hybrid' (HIGH at every tick). *)
C10_EnergyDominance ==
  EnergyComparable => results.totalEnergy <= HybridRun.totalEnergy

(* C10 as amended: on such a task set, totalEnergy under 'energy-hybrid'
   exceeds the one under 'hybrid' by at most 3 per task: a task that ran an
   odd number of LOW ticks and then completes on a HIGH tick pays a LOW
   tick more than its work needs. *)
C10_EnergyWithinThreePerTask ==
  EnergyComparable =>
    results.totalEnergy <= HybridRun.totalEnergy + 3 * Len(tasks)

(* A comparable energy-hybrid run that mixes LOW and HIGH ticks and ends
   above the energy of the hybrid run *)
C10_Witness ==
  /\ EnergyComparable
  /\ \E k \in 1..Len(timeline) : timeline[k].cpuState = "POWER_SAVER"
  /\ \E k \in 1..Len(timeline) : timeline[k].cpuState = "HIGH_PERFORMANCE"
  /\ results.totalEnergy > HybridRun.totalEnergy

----------------------------------------------------------------------------
(* C11: when the run of a non-empty task set has finished, the deadline miss
   ratio is the number of tasks that are not completed or were completed
   after their absolute deadline, over the number of tasks; it lies between
   0 and 1, and it is 0 exactly when every task completed no later than its
   absolute deadline. *)

MissedTasks ==
  {i \in Indices(tasks) : ~tasks[i].completed
                          \/ tasks[i].completion_time > tasks[i].abs_deadline}

C11_MissRatio ==
  (results.computed /\ Len(tasks) > 0) =>
    /\ results.deadlineMissRatio.den = Len(tasks)
    /\ results.deadlineMissRatio.num = Cardinality(MissedTasks)
    /\ 0 <= results.deadlineMissRatio.num
    /\ results.deadlineMissRatio.num <= results.deadlineMissRatio.den
    /\ (results.deadlineMissRatio.num = 0 <=>
          \A i \in Indices(tasks) :
            /\ tasks[i].completed
            /\ tasks[i].completion_time <= tasks[i].abs_deadline)

(* a finished run of two tasks where one was completed after its absolute
   deadline and the other in time: the ratio is one half *)
C11_Witness ==
  /\ results.computed
  /\ Len(tasks) = 2
  /\ results.deadlineMissRatio.num = 1
  /\ \E i \in Indices(tasks) :
       tasks[i].completed /\ tasks[i].completion_time > tasks[i].abs_deadline
  /\ \E i \in Indices(tasks) :
       tasks[i].completed /\ tasks[i].completion_time <= tasks[i].abs_deadline

----------------------------------------------------------------------------
(* C12: when the run of the empty task set has finished, the deadline miss
   ratio is 0 and the average turnaround is a defined number, 0: neither is
   the result of dividing by a task count of 0. *)

(* the quotient num / den of two numbers is NaN when both are 0 *)
IsNaN(q) == q.num = 0 /\ q.den = 0

C12_EmptySetDefined ==
  (results.computed /\ Len(tasks) = 0) =>
    /\ ~IsNaN(results.deadlineMissRatio)
    /\ results.deadlineMissRatio.num = 0
    /\ ~IsNaN(results.avgTurnaround)
    /\ results.avgTurnaround.num = 0

----------------------------------------------------------------------------
(* C13: the timeline holds exactly one snapshot for every tick the loop has
   iterated, in tick order, the tick on which the loop terminates early
   included.  Stated for the runs of a non-empty task set, the ones the run
   button starts. *)

C13_TimelineComplete ==
  Len(tasks) > 0 =>
    /\ Len(timeline) = IteratedTicks(State)
    /\ \A k \in 1..Len(timeline) : timeline[k].time = k - 1

----------------------------------------------------------------------------
(* C14: the loop iterates at most totalTime + 1 ticks, all within
   0..totalTime, one per step.  It leaves at the end of the first tick at
   which every task is admitted and completed, and otherwise iterates every
   tick 0..totalTime; once it has left, no energy, work, wait time or log line
   is added. *)

AllAdmittedAndCompleted(ts) ==
  \A i \in Indices(ts) : ts[i].admitted /\ ts[i].completed

C14_Iteration ==
  /\ currentTime <= totalTime
  /\ Len(tasks) > 0 => ~AllAdmittedAndCompleted(tasks)
  /\ IteratedTicks(State)' = IteratedTicks(State) + 1
  /\ IteratedTicks(State)' <= totalTime + 1
  /\ pc' = "break" <=> AllAdmittedAndCompleted(tasks')
  /\ currentTime' = (IF pc' = "break" THEN currentTime ELSE currentTime + 1)

C14_AfterTheLoop ==
  /\ pc # "break" => currentTime = totalTime + 1
  /\ pc = "break" => AllAdmittedAndCompleted(tasks)
  /\ UNCHANGED <<tasks, currentTime, pc, totalEnergy, cpuBusyTime, log,
                 timeline, resources>>

C14_LoopTermination ==
  [][IF Looping(State) THEN C14_Iteration ELSE C14_AfterTheLoop]_vars

(* a finished run that left the loop before totalTime, after more than one
   tick *)
C14_Witness ==
  /\ results.computed
  /\ pc = "break"
  /\ 0 < currentTime
  /\ currentTime < totalTime
  /\ AllAdmittedAndCompleted(tasks)

----------------------------------------------------------------------------
(* C15: at every tick each resource name maps to at most one owning task id,
   and the entry of a resource owned by task A at the start of a tick is gone
   at its end only if A completed in that tick. *)

TaskIds == {tasks[i].id : i \in Indices(tasks)}

CompletesNow(i) == ~tasks[i].completed /\ tasks'[i].completed

C15_ReleaseByOwnerOnly ==
  [][\A r \in ResourceNames :
       /\ resources'[r] \in TaskIds \cup {NoOwner}
       /\ (resources[r] # NoOwner /\ resources'[r] = NoOwner) =>
            \E i \in Indices(tasks) :
              tasks[i].id = resources[r] /\ CompletesNow(i)]_vars

----------------------------------------------------------------------------
(* C16: at every tick where the selected task w needs a resource and is
   blocked because the resource is owned by another task o whose score
   (is_critical ? 1000000 : 0) - abs_deadline is lower than that of w, the
   wait_time of w is strictly larger after the tick, and a priority
   inheritance boost of o by w is logged at that tick. *)

Score(i) ==
  (IF tasks[i].is_critical THEN PrioCritical ELSE 0) - tasks[i].abs_deadline

(* line k of the log after the step was written in the step's tick and
   reports that owner o inherits from waiter w *)
BoostLogged(k, o, w) ==
  /\ k > Len(log)
  /\ Len(log'[k]) = 4
  /\ log'[k][1] = currentTime
  /\ log'[k][2] = "priority inheritance"
  /\ log'[k][3] = tasks[o].id
  /\ log'[k][4] = tasks[w].id

C16_BlockedWaiterBoostsOwner ==
  [][\A w, o \in Indices(tasks) :
       (/\ SelectedIsBlocked
        /\ next' = w
        /\ tasks[o].id = resources[tasks[w].needs_resource]
        /\ Score(o) < Score(w)) =>
         /\ tasks'[w].wait_time > tasks[w].wait_time
         /\ \E k \in 1..Len(log') : BoostLogged(k, o, w)]_vars

(* the last tick logged a boost by a waiter and the blocking of that same
   waiter *)
C16_Witness ==
  \E k, b \in 1..Len(log) :
    /\ Len(log[k]) = 4 /\ Len(log[b]) = 4
    /\ log[k][1] = LastTick /\ log[b][1] = LastTick
    /\ log[k][2] = "priority inheritance"
    /\ log[b][2] = "blocked"
    /\ log[k][4] = log[b][3]

----------------------------------------------------------------------------
(* C17: a run under a scheduler name outside rms, edf, hybrid and
   energy-hybrid is, after every tick, the run of the same task set and
   parameters under 'edf': same tasks, selection, CPU state (HIGH), resource
   table, log (block and acquire decisions included), energy and timeline,
   and the same metrics at the end. *)

RECURSIVE RunTicks(_, _)
RunTicks(S, n) ==
  IF n = 0 \/ ~Looping(S) THEN S ELSE RunTicks(LoopBody(S), n - 1)

(* the run of the same input under 'edf', after as many ticks as iterated *)
EdfRun ==
  RunTicks(InitialRun(input, "edf", totalTime, laxityThreshold),
           IteratedTicks(State))

KnownSchedulers == {"rms", "edf", "hybrid", "energy-hybrid"}

C17_UnknownSchedulerIsEdf ==
  scheduler \notin KnownSchedulers =>
    /\ [State EXCEPT !.scheduler = "edf"] = EdfRun
    /\ cpuState = CPU_STATES.HIGH
    /\ results.computed => results = computeMetrics(EdfRun)

(* a finished run under an unknown scheduler name in which the earlier
   deadline belongs to the task of the longer period, so that 'rms' and 'edf'
   select differently, and that task completed first *)
C17_Witness ==
  /\ scheduler \notin KnownSchedulers
  /\ results.computed
  /\ Len(tasks) = 2
  /\ \E i, j \in Indices(tasks) :
       /\ tasks[i].period < tasks[j].period
       /\ tasks[j].abs_deadline < tasks[i].abs_deadline
       /\ tasks[i].arrival = tasks[j].arrival
       /\ tasks[j].completion_time < tasks[i].completion_time

----------------------------------------------------------------------------
(* C18: whatever extra fields the input descriptors carry (admitted,
   completed, remaining, history, wait_time of an earlier run), the run
   starts with one task per descriptor, in input order, with
   remaining = execution, an empty history, wait_time 0,
   abs_deadline = arrival + deadline_relative (deadline_relative = execution
   when no deadline is given), and the flags admitted, completed, started and
   boosted all false. *)

C18_NormalizedStart ==
  ~Ticked =>
    /\ Len(tasks) = Len(input)
    /\ \A i \in Indices(input) :
         /\ tasks[i].id = input[i].id
         /\ tasks[i].remaining = input[i].execution * Scale
         /\ tasks[i].history = <<>>
         /\ tasks[i].wait_time = 0
         /\ tasks[i].abs_deadline =
              input[i].arrival + (IF input[i].deadline = NULL
                                    THEN input[i].execution
                                    ELSE input[i].deadline)
         /\ ~tasks[i].completed
         /\ ~tasks[i].started
         /\ ~tasks[i].admitted
         /\ ~tasks[i].boosted

----------------------------------------------------------------------------
(* C19: a single task with integer execution time e > 0 and arrival a that
   uses no resource, run under rms, edf or hybrid with totalTime >= a + e - 1,
   completes with completion_time = a + e and the single history segment
   {start: a, end: a + e}; with deadline 25, execution 20 and arrival 0 it
   completes at tick 20 and is not a deadline miss. *)

C19_SingleTask ==
  (/\ results.computed
   /\ Len(input) = 1
   /\ input[1].holds_resource = NoResource
   /\ input[1].needs_resource = NoResource
   /\ input[1].execution > 0
   /\ scheduler \in {"rms", "edf", "hybrid"}
   /\ totalTime >= input[1].arrival + input[1].execution - 1) =>
    /\ tasks[1].completed
    /\ tasks[1].completion_time = input[1].arrival + input[1].execution
    /\ tasks[1].history =
         <<[start |-> input[1].arrival,
            end |-> input[1].arrival + input[1].execution,
            state |-> "run"]>>
    /\ (input[1].deadline = 25 /\ input[1].execution = 20
          /\ input[1].arrival = 0) =>
         /\ tasks[1].completion_time = 20
         /\ results.deadlineMissRatio.num = 0

(* the finished run of the task with execution 20, deadline 25 and arrival
   0 on the shortest horizon, 19 *)
C19_Witness ==
  /\ results.computed
  /\ Len(input) = 1
  /\ scheduler \in {"rms", "edf", "hybrid"}
  /\ input[1].deadline = 25
  /\ input[1].execution = 20
  /\ input[1].arrival = 0
  /\ totalTime = 19
  /\ tasks[1].completion_time = 20

----------------------------------------------------------------------------
(* C20: the wait_time of a task counts, one for one, the iterated ticks at
   which the task was admitted, not completed at the end of the tick, and did
   not execute, the ticks at which it was selected but blocked on a resource
   counted once each: in every tick the wait_time of such a task grows by 1
   and that of every other task stays. *)

WaitsThisTick(i) ==
  /\ tasks'[i].admitted
  /\ ~tasks'[i].completed
  /\ tasks'[i].remaining = tasks[i].remaining

C20_WaitOncePerTick ==
  [][Looping(State) =>
       \A i \in Indices(tasks) :
         tasks'[i].wait_time =
           tasks[i].wait_time + (IF WaitsThisTick(i) THEN 1 ELSE 0)]_vars

----------------------------------------------------------------------------
(* C21: in every timeline snapshot, running is the id of the task that
   executed during the snapshot's tick, and null when no task executed in it
   (no candidate, or the selected task blocked), also when a task executed at
   an earlier tick. *)

(* line j of the log reports the execution of a task at tick t *)
RunLine(j, t) ==
  /\ Len(log[j]) = 5
  /\ log[j][1] = t
  /\ log[j][2] = "running"

(* the id of the task that executed at tick t, by the log *)
ExecutedAt(t) ==
  IF \E j \in 1..Len(log) : RunLine(j, t)
    THEN log[CHOOSE j \in 1..Len(log) : RunLine(j, t)][3]
    ELSE "null"

C21_TimelineRunning ==
  \A k \in 1..Len(timeline) :
    timeline[k].running = ExecutedAt(timeline[k].time)

----------------------------------------------------------------------------
(* C22: the history of a task covers exactly the ticks in which it executed:
   tick t lies in a segment [start, end) of the task if and only if the task
   executed at t; a task that resumes after a gap gets a new segment, not an
   extension across the gap. *)

C22_HistoryIsExecution ==
  \A i \in Indices(tasks) : \A t \in 0..totalTime :
    t \in Covered(tasks, i) <=> ExecutedAt(t) = tasks[i].id

----------------------------------------------------------------------------
(* C23: the boost is recomputed from scratch at every tick: task o is boosted
   during the selection of a tick only if at that tick some admitted task w
   other than o needs a resource whose owner in the table at that moment is o
   and score(w) > score(o); and a task counts as critical in the selection
   only if it is critical or boosted at that tick, so a boost of the tick
   before has no effect once the condition no longer holds. *)

BoostCause(o) ==
  \E w \in Indices(tasks) \ {o} :
    /\ tasks'[w].admitted
    /\ tasks[w].needs_resource # NoResource
    /\ resources[tasks[w].needs_resource] = tasks[o].id
    /\ Score(w) > Score(o)

C23_BoostRecomputed ==
  [][Looping(State) =>
       \A o \in Indices(tasks) :
         /\ tasks'[o].boosted => BoostCause(o)
         /\ tasks'[o].effectiveCritical =>
              (tasks[o].is_critical \/ tasks'[o].boosted)]_vars

(* line j of the log reports a boost of the task with this id at tick t *)
BoostLine(j, t, id) ==
  /\ Len(log[j]) = 4
  /\ log[j][1] = t
  /\ log[j][2] = "priority inheritance"
  /\ log[j][3] = id

(* a task that is not critical was boosted at the tick before the last and
   is not boosted at the last tick, at which another task executed *)
C23_Witness ==
  \E o \in Indices(tasks) :
    /\ LastTick >= 1
    /\ ~tasks[o].is_critical
    /\ \E j \in 1..Len(log) : BoostLine(j, LastTick - 1, tasks[o].id)
    /\ \A j \in 1..Len(log) : ~BoostLine(j, LastTick, tasks[o].id)
    /\ ~tasks[o].boosted
    /\ ExecutedAt(LastTick) \notin {"null", tasks[o].id}

----------------------------------------------------------------------------
(* C24: only Ready waiters (admitted and not yet completed) cause a boost: at
   no tick is a resource owner marked boosted, and no priority inheritance
   line is logged, on behalf of a waiter that has already completed. *)

ReadyBoostCause(o) ==
  \E w \in Indices(tasks) \ {o} :
    /\ tasks'[w].admitted
    /\ ~tasks[w].completed
    /\ tasks[w].needs_resource # NoResource
    /\ resources[tasks[w].needs_resource] = tasks[o].id
    /\ Score(w) > Score(o)

C24_OnlyReadyWaitersBoost ==
  [][Looping(State) =>
       /\ \A o \in Indices(tasks) : tasks'[o].boosted => ReadyBoostCause(o)
       /\ \A k \in (Len(log) + 1)..Len(log') :
            (Len(log'[k]) = 4 /\ log'[k][2] = "priority inheritance") =>
              ~tasks[FindById(tasks, log'[k][4])].completed]_vars

----------------------------------------------------------------------------
(* C25: tie-breaking is total and independent of the input order: in every
   discipline, among the competing candidates with the same primary key
   (period or abs_deadline) as the selected task, the selected one has the
   smaller arrival and, at equal arrivals, the lexicographically smaller id;
   and the run of the input list in reverse order gives every task the same
   history, completion_time and wait_time and gives the same aggregate
   metrics. *)

Reverse(ds) == [k \in 1..Len(ds) |-> ds[Len(ds) + 1 - k]]

PermutedRun ==
  RunToEnd(InitialRun(Reverse(input), scheduler, totalTime, laxityThreshold))

(* the selection of the step's tick orders by period *)
ByPeriod ==
  \/ scheduler = "rms"
  \/ scheduler \in {"hybrid", "energy-hybrid"} /\ EffectivelyCritical # {}

(* the candidates the selected task is compared with *)
Pool ==
  IF scheduler \in {"hybrid", "energy-hybrid"} /\ EffectivelyCritical # {}
    THEN EffectivelyCritical ELSE CandSet

SameKey(n, c) ==
  IF ByPeriod THEN tasks[n].period = tasks[c].period
  ELSE tasks[n].abs_deadline = tasks[c].abs_deadline

TieBroken(n, c) ==
  \/ tasks[n].arrival < tasks[c].arrival
  \/ /\ tasks[n].arrival = tasks[c].arrival
     /\ Rank(tasks[n].id) <= Rank(tasks[c].id)

SameOutcome(P) ==
  /\ Len(P.tasks) = Len(tasks)
  /\ \A i \in Indices(tasks) :
       \E j \in Indices(P.tasks) :
         /\ P.tasks[j].id = tasks[i].id
         /\ P.tasks[j].history = tasks[i].history
         /\ P.tasks[j].completion_time = tasks[i].completion_time
         /\ P.tasks[j].wait_time = tasks[i].wait_time

SameAggregates(r, q) ==
  /\ r.totalEnergy = q.totalEnergy
  /\ r.deadlineMissRatio = q.deadlineMissRatio
  /\ r.avgTurnaround = q.avgTurnaround
  /\ r.cpuUtilization = q.cpuUtilization
  /\ r.totalSimTime = q.totalSimTime
  /\ r.cpuBusyTime = q.cpuBusyTime

C25_TieBreakOrderIndependent ==
  [][IF Looping(State)
       THEN next' # NONE =>
              \A c \in Pool : SameKey(next', c) => TieBroken(next', c)
       ELSE \E P \in {PermutedRun} :
              /\ SameOutcome(P)
              /\ SameAggregates(results', computeMetrics(P))]_vars

(* a finished run of two tasks with equal deadlines, equal periods and equal
   arrivals, in which the task with the smaller id completed first *)
C25_Witness ==
  /\ results.computed
  /\ Len(tasks) = 2
  /\ tasks[1].abs_deadline = tasks[2].abs_deadline
  /\ tasks[1].period = tasks[2].period
  /\ tasks[1].arrival = tasks[2].arrival
  /\ tasks[1].completed /\ tasks[2].completed
  /\ Rank(tasks[1].id) < Rank(tasks[2].id)
  /\ tasks[1].completion_time < tasks[2].completion_time

----------------------------------------------------------------------------
(* C26: runs do not alias: no tick of a run changes a descriptor of the
   caller's task list, so a second run of that list with the same scheduler,
   totalTime and laxityThreshold returns identical per-task records, log,
   timeline and metrics. *)

----------------------------------------------------------------------------
(* C27: ownership is stable: once task a is recorded as owner of resource r,
   the entry of r stays a at every later tick until a completes; no other
   task, whether it needs r or declares holds_resource r, becomes owner of r
   while a is not completed. *)

C27_OwnershipStable ==
  [][Looping(State) =>
       \A r \in ResourceNames : \A a \in Indices(tasks) :
         (resources[r] = tasks[a].id /\ ~tasks'[a].completed) =>
           resources'[r] = tasks[a].id]_vars

----------------------------------------------------------------------------
(* C28: no permanent blocking: for every scheduler and every task set with
   positive executions, if totalTime is at least the latest arrival plus
   twice the sum of the executions plus the number of tasks, every task is
   completed at the end of the run. *)

AllTasksCompleted == \A i \in Indices(tasks) : tasks[i].completed

BlockedLine(j) == Len(log[j]) = 4 /\ log[j][2] = "blocked"

NoBlockedTick == \A j \in 1..Len(log) : ~BlockedLine(j)

----------------------------------------------------------------------------
(* C29: cpuUtilization never exceeds 1: at the end of every run
   cpuBusyTime <= max(totalSimTime, 1), where totalSimTime is the largest of
   totalTime and the completion times, also when a task is still executing
   at tick totalTime without completing. *)

C29_UtilizationAtMostOne ==
  results.computed =>
    /\ results.cpuUtilization.num = cpuBusyTime
    /\ results.cpuUtilization.den = Max(results.totalSimTime, 1)
    /\ results.cpuUtilization.num <= results.cpuUtilization.den

----------------------------------------------------------------------------
(* C30: every owner recorded in the resource table at the end of a tick is a
   task that is admitted and not completed: a task that completes releases
   every entry it owns, that of its holds_resource and that of its
   needs_resource, in the same tick, also when it acquired the resource and
   completed in one tick. *)

C30_OwnersAreLive ==
  \A r \in DOMAIN resources :
    resources[r] # NoOwner =>
      \E i \in Indices(tasks) :
        /\ tasks[i].id = resources[r]
        /\ tasks[i].admitted
        /\ ~tasks[i].completed

(* line j of the log is the line of this kind about the task with this id,
   stamped t *)
LineOf(j, t, kind, id) ==
  /\ Len(log[j]) = 4
  /\ log[j][1] = t
  /\ log[j][2] = kind
  /\ log[j][3] = id

(* at the last tick a task that holds R1 and needs R2 acquired R2 and
   completed, the table has no entry left, and the other task is not
   completed *)
C30_Witness ==
  \E i \in Indices(tasks) :
    /\ tasks[i].holds_resource = "R1"
    /\ tasks[i].needs_resource = "R2"
    /\ \E j \in 1..Len(log) : LineOf(j, LastTick, "acquired", tasks[i].id)
    /\ \E j \in 1..Len(log) :
         LineOf(j, LastTick + 1, "completed", tasks[i].id)
    /\ tasks[i].start_time = LastTick
    /\ \A r \in DOMAIN resources : resources[r] = NoOwner
    /\ \E k \in Indices(tasks) : ~tasks[k].completed

====
